---- MODULE Spec2Model ----
(***************************************************************************)
(* Model of the upstash-qstash Rust client: the MessageSettings builder    *)
(* (src/src/message.rs), Client::new and the five Client operations        *)
(* (src/src/lib.rs) and the QStashError taxonomy (src/src/utils.rs).       *)
(*                                                                         *)
(* Text is modelled as a sequence of byte values (97 is "a", 47 is "/",    *)
(* 10 is a line feed), so that header-value validation, decimal            *)
(* formatting and URL resolution are computed byte by byte as the          *)
(* libraries called by the code compute them.                              *)
(***************************************************************************)
EXTENDS Integers, Sequences, FiniteSets, TLC

VARIABLES
    settings,    \* the MessageSettings value being built (message.rs:5-12)
    lastArg,     \* history: the argument of the last call of every setter
    consumed,    \* TRUE once as_headers(self) has consumed the builder
    headersOut,  \* what as_headers ended with
    newToken,    \* the token Client::new was called with
    client,      \* what Client::new ended with: the Client, or the error
    pc,          \* where the current Client operation stands
    call,        \* the operation called and its arguments
    request,     \* the HTTP request handed to the transport
    nreq,        \* network requests issued by the current call
    response,    \* the HTTP response received
    outcome      \* how the call ended

vars == <<settings, lastArg, consumed, headersOut, newToken, client,
          pc, call, request, nreq, response, outcome>>

settingsVars == <<settings, lastArg, consumed, headersOut>>
newVars == <<newToken, client>>
callVars == <<pc, call, request, nreq, response, outcome>>

(***************************************************************************)
(* Option<T>                                                               *)
(***************************************************************************)
Some(v) == [some |-> TRUE, val |-> v]
NoneStr == [some |-> FALSE, val |-> <<>>]
NoneInt == [some |-> FALSE, val |-> 0]

(***************************************************************************)
(* Bounds of the model                                                     *)
(***************************************************************************)
MaxRetries == 12
MaxCursor == 12
MaxIdLen == 2
MaxTokenLen == 3

(***************************************************************************)
(* Decimal text of an integer: u32::to_string and format!("{}", i64)       *)
(***************************************************************************)
RECURSIVE DigitsOf(_)
DigitsOf(n) == IF n < 10 THEN <<48 + n>>
               ELSE Append(DigitsOf(n \div 10), 48 + (n % 10))

\* a formatting that loses the sign
to_string_unsigned(n) == DigitsOf(IF n < 0 THEN 0 - n ELSE n)

to_string(n) == IF n < 0 THEN <<45>> \o DigitsOf(0 - n) ELSE DigitsOf(n)

(***************************************************************************)
(* http::HeaderValue::from_str, reached by str::parse (message.rs:84-96)   *)
(* and by lib.rs:32: every byte must satisfy is_valid.                     *)
(***************************************************************************)
\* a validity test that lets DEL through
is_valid_lax(b) == b >= 32 \/ b = 9

is_valid(b) == (b >= 32 /\ b # 127) \/ b = 9

HeaderValue_from_str(s) == \A i \in 1..Len(s) : is_valid(s[i])

(***************************************************************************)
(* http::HeaderMap: for every header name the sequence of its values       *)
(* (empty when the name is absent). Header names are case-insensitive and  *)
(* kept in lower case; HeaderNameOf is that normalisation for the names    *)
(* the code writes as literals.                                            *)
(***************************************************************************)
HeaderNameOf(lit) ==
    CASE lit = "Upstash-Delay" -> "upstash-delay"
      [] lit = "Upstash-Retries" -> "upstash-retries"
      [] lit = "Upstash-Cron" -> "upstash-cron"
      [] lit = "Upstash-Callback" -> "upstash-callback"
      [] lit = "Upstash-Deduplication-Id" -> "upstash-deduplication-id"

HeaderNames == {"upstash-delay", "upstash-retries", "upstash-cron",
                "upstash-callback", "upstash-deduplication-id", "x-trace",
                "authorization"}

HeaderMapNew == [n \in HeaderNames |-> <<>>]

\* HeaderMap::insert: the value replaces every value under the name
HeaderMapInsert(h, lit, v) == [h EXCEPT ![HeaderNameOf(lit)] = <<v>>]

\* a HeaderMap::extend that appends to an occupied entry instead of replacing it
HeaderMapExtendAppending(h, other) ==
    [n \in HeaderNames |-> h[n] \o other[n]]

\* HeaderMap::extend(other): for every name of other, the first value is
\* inserted (replacing all values of an occupied entry) and the name's further
\* values are appended
HeaderMapExtend(h, other) ==
    [n \in HeaderNames |->
        IF other[n] = <<>> THEN h[n]
        ELSE <<Head(other[n])>> \o Tail(other[n])]

NoneMap == [some |-> FALSE, val |-> HeaderMapNew]

(***************************************************************************)
(* MessageSettings (message.rs)                                            *)
(***************************************************************************)
MessageSettings_new ==
    [delay |-> NoneStr, retries |-> NoneInt, cron |-> NoneStr,
     callback |-> NoneStr, dedup_id |-> NoneStr, custom_headers |-> NoneMap]

delay(self, v) == [self EXCEPT !.delay = Some(v)]
retries(self, v) == [self EXCEPT !.retries = Some(v)]
cron(self, v) == [self EXCEPT !.cron = Some(v)]
\* a setter that writes its neighbour's field
callback_url_wrong_field(self, v) == [self EXCEPT !.cron = Some(v)]
callback_url(self, v) == [self EXCEPT !.callback = Some(v)]
dedup_id(self, v) == [self EXCEPT !.dedup_id = Some(v)]
custom_headers(self, v) == [self EXCEPT !.custom_headers = Some(v)]

Panic == [tag |-> "Panic", headers |-> HeaderMapNew]
Returned(h) == [tag |-> "Returned", headers |-> h]
NotCalled == [tag |-> "NotCalled", headers |-> HeaderMapNew]

\* as_headers(self): every parse().unwrap() panics on a value that
\* HeaderValue::from_str rejects; the function has no error return
as_headers(self) ==
    LET h0 == HeaderMapNew
        h1 == IF self.delay.some
              THEN HeaderMapInsert(h0, "Upstash-Delay", self.delay.val) ELSE h0
        h2 == IF self.retries.some
              THEN HeaderMapInsert(h1, "Upstash-Retries", to_string(self.retries.val))
              ELSE h1
        h3 == IF self.cron.some
              THEN HeaderMapInsert(h2, "Upstash-Cron", self.cron.val) ELSE h2
        h4 == IF self.callback.some
              THEN HeaderMapInsert(h3, "Upstash-Callback", self.callback.val) ELSE h3
        h5 == IF self.dedup_id.some
              THEN HeaderMapInsert(h4, "Upstash-Deduplication-Id", self.dedup_id.val)
              ELSE h4
        h6 == IF self.custom_headers.some
              THEN HeaderMapExtend(h5, self.custom_headers.val) ELSE h5
    IN  IF      self.delay.some /\ ~HeaderValue_from_str(self.delay.val) THEN Panic
        ELSE IF self.retries.some
                /\ ~HeaderValue_from_str(to_string(self.retries.val)) THEN Panic
        ELSE IF self.cron.some /\ ~HeaderValue_from_str(self.cron.val) THEN Panic
        ELSE IF self.callback.some /\ ~HeaderValue_from_str(self.callback.val) THEN Panic
        ELSE IF self.dedup_id.some /\ ~HeaderValue_from_str(self.dedup_id.val) THEN Panic
        ELSE Returned(h6)

(***************************************************************************)
(* url::Url, as far as lib.rs uses it. BASE_URL is                         *)
(* "https://qstash.upstash.io/v1/": scheme https (a special scheme), host  *)
(* qstash.upstash.io, path "/v1/", no query, no fragment. Every string the *)
(* code joins onto it starts with "messages/", "publish/" or "quota", so   *)
(* it never carries a scheme or an authority and the join keeps the        *)
(* base's scheme and host; the model keeps path, query and fragment.       *)
(***************************************************************************)
Slash == 47
Backslash == 92
QuestionMark == 63
Hash == 35
Dot == 46
Space == 32
Percent == 37

S_quota == <<113, 117, 111, 116, 97>>                          \* "quota"
S_messages == <<109, 101, 115, 115, 97, 103, 101, 115, 47>>     \* "messages/"
S_publish == <<112, 117, 98, 108, 105, 115, 104, 47>>           \* "publish/"
S_tasks == <<47, 116, 97, 115, 107, 115>>                       \* "/tasks"
S_cursor == <<99, 117, 114, 115, 111, 114, 61>>                 \* "cursor="
S_v1 == <<47, 118, 49, 47>>                                     \* "/v1/"
S_Bearer == <<66, 101, 97, 114, 101, 114, 32>>                  \* "Bearer "
\* "https://qstash.upstash.io"
S_origin == <<104, 116, 116, 112, 115, 58, 47, 47, 113, 115, 116, 97, 115, 104, 46,
              117, 112, 115, 116, 97, 115, 104, 46, 105, 111>>

\* the base written without its final "/"
BASE_URL_without_final_slash == S_origin \o <<47, 118, 49>>

\* static BASE_URL = "https://qstash.upstash.io/v1/"
BASE_URL == S_origin \o S_v1

HexDigit(d) == IF d < 10 THEN 48 + d ELSE 55 + d
PercentEncoded(b) == <<Percent, HexDigit(b \div 16), HexDigit(b % 16)>>

IsControlOrNonAscii(b) == b < 32 \/ b > 126
\* percent_encoding sets of the url crate: FRAGMENT, PATH, SPECIAL_QUERY
InFragmentSet(b) == IsControlOrNonAscii(b) \/ b \in {32, 34, 60, 62, 96}
InPathSet(b) == InFragmentSet(b) \/ b \in {35, 63, 123, 125}
InSpecialQuerySet(b) == IsControlOrNonAscii(b) \/ b \in {32, 34, 35, 60, 62, 39}

RECURSIVE EncodePath(_)
EncodePath(s) ==
    IF s = <<>> THEN <<>>
    ELSE (IF InPathSet(Head(s)) THEN PercentEncoded(Head(s)) ELSE <<Head(s)>>)
         \o EncodePath(Tail(s))

RECURSIVE EncodeQuery(_)
EncodeQuery(s) ==
    IF s = <<>> THEN <<>>
    ELSE (IF InSpecialQuerySet(Head(s)) THEN PercentEncoded(Head(s)) ELSE <<Head(s)>>)
         \o EncodeQuery(Tail(s))

\* Parser::parse_fragment: every byte of the FRAGMENT set is percent-encoded,
\* a NUL byte among them (as %00)
RECURSIVE EncodeFragment(_)
EncodeFragment(s) ==
    IF s = <<>> THEN <<>>
    ELSE (IF InFragmentSet(Head(s)) THEN PercentEncoded(Head(s)) ELSE <<Head(s)>>)
         \o EncodeFragment(Tail(s))

\* parser::Input: C0 controls and spaces are trimmed from both ends, and
\* tabs and newlines are skipped wherever they stand
RECURSIVE TrimStart(_)
TrimStart(s) == IF s # <<>> /\ Head(s) <= Space THEN TrimStart(Tail(s)) ELSE s

RECURSIVE TrimEnd(_)
TrimEnd(s) == IF s # <<>> /\ s[Len(s)] <= Space
              THEN TrimEnd(SubSeq(s, 1, Len(s) - 1)) ELSE s

Input(s) == SelectSeq(TrimEnd(TrimStart(s)), LAMBDA b : b \notin {9, 10, 13})

\* index of the first byte of s that is in set, or Len(s) + 1
FirstIn(s, set) ==
    IF \E i \in 1..Len(s) : s[i] \in set
    THEN CHOOSE i \in 1..Len(s) : s[i] \in set /\ \A j \in 1..(i - 1) : s[j] \notin set
    ELSE Len(s) + 1

\* index of the last "/" of s (0 when there is none)
LastSlash(s) ==
    IF \E i \in 1..Len(s) : s[i] = Slash
    THEN CHOOSE i \in 1..Len(s) : s[i] = Slash /\ \A j \in (i + 1)..Len(s) : s[j] # Slash
    ELSE 0

\* Parser::pop_path: drop the last path segment, keep the "/" before it
pop_path(ser) == IF Len(ser) > 0 THEN SubSeq(ser, 1, LastSlash(ser)) ELSE ser

\* Parser::shorten_path
shorten_path(ser) == IF Len(ser) = 0 THEN ser ELSE pop_path(ser)

IsAlpha(b) == (b >= 65 /\ b <= 90) \/ (b >= 97 /\ b <= 122)

\* parser::starts_with_windows_drive_letter: a letter, then ":" or "|", then
\* the end or one of "/", "\", "?", "#"
starts_with_windows_drive_letter(s) ==
    /\ Len(s) >= 2
    /\ IsAlpha(s[1])
    /\ s[2] \in {58, 124}
    /\ (Len(s) = 2 \/ s[3] \in {Slash, Backslash, QuestionMark, Hash})

\* parser::path_starts_with_windows_drive_letter
path_starts_with_windows_drive_letter(s) ==
    /\ s # <<>>
    /\ Head(s) \in {Slash, Backslash, QuestionMark, Hash}
    /\ starts_with_windows_drive_letter(Tail(s))

\* Parser::last_slash_can_be_removed: another "/" of the path precedes the
\* last one, and the segment between the two is no Windows drive letter
\* (tested for every scheme)
last_slash_can_be_removed(ser) ==
    LET segment_before_start == LastSlash(SubSeq(ser, 1, Len(ser) - 1))
    IN  /\ segment_before_start > 0
        /\ ~path_starts_with_windows_drive_letter(
                SubSeq(ser, segment_before_start, Len(ser)))

DoubleDotSegments ==
    { <<46, 46>>, <<37, 50, 101, 37, 50, 101>>, <<37, 50, 101, 37, 50, 69>>,
      <<37, 50, 69, 37, 50, 101>>, <<37, 50, 69, 37, 50, 69>>,
      <<37, 50, 101, 46>>, <<37, 50, 69, 46>>, <<46, 37, 50, 101>>, <<46, 37, 50, 69>> }
SingleDotSegments == { <<46>>, <<37, 50, 101>>, <<37, 50, 69>> }

\* Parser::parse_path for a special scheme: ser is the path written so far,
\* input what is left to read; the result is the path and the unread input
\* (empty, or starting at "?" or "#")
RECURSIVE parse_path(_, _)
parse_path(ser, input) ==
    LET stop == FirstIn(input, {Slash, Backslash, QuestionMark, Hash})
        ends_with_slash == stop <= Len(input) /\ input[stop] \in {Slash, Backslash}
        segment == EncodePath(SubSeq(input, 1, stop - 1))
        rest == IF ends_with_slash THEN SubSeq(input, stop + 1, Len(input))
                ELSE SubSeq(input, stop, Len(input))
        truncated == IF ser # <<>> /\ ser[Len(ser)] = Slash /\ last_slash_can_be_removed(ser)
                     THEN SubSeq(ser, 1, Len(ser) - 1) ELSE ser
        shortened == shorten_path(truncated)
        after ==
            IF segment \in DoubleDotSegments
            THEN (IF ends_with_slash /\ (shortened = <<>> \/ shortened[Len(shortened)] # Slash)
                  THEN Append(shortened, Slash) ELSE shortened)
            ELSE IF segment \in SingleDotSegments
            THEN (IF ser = <<>> \/ ser[Len(ser)] # Slash THEN Append(ser, Slash) ELSE ser)
            ELSE ser \o segment \o (IF ends_with_slash THEN <<Slash>> ELSE <<>>)
    IN  IF ends_with_slash THEN parse_path(after, rest)
        ELSE [path |-> after, remaining |-> rest]

\* Parser::parse_query_and_fragment
with_query_and_fragment(path, remaining) ==
    IF remaining = <<>>
    THEN [path |-> path, query |-> NoneStr, fragment |-> NoneStr]
    ELSE IF Head(remaining) = Hash
    THEN [path |-> path, query |-> NoneStr,
          fragment |-> Some(EncodeFragment(Tail(remaining)))]
    ELSE LET q == Tail(remaining)
             h == FirstIn(q, {Hash})
         IN  [path |-> path,
              query |-> Some(EncodeQuery(SubSeq(q, 1, h - 1))),
              fragment |-> IF h <= Len(q)
                           THEN Some(EncodeFragment(SubSeq(q, h + 1, Len(q))))
                           ELSE NoneStr]

\* the "/" and "\" after the scheme's ":" are skipped (special authority slashes)
RECURSIVE TrimSlashes(_)
TrimSlashes(s) == IF s # <<>> /\ Head(s) \in {Slash, Backslash}
                  THEN TrimSlashes(Tail(s)) ELSE s

IsSchemeByte(b) == IsAlpha(b) \/ (b >= 48 /\ b <= 57) \/ b \in {43, 45, 46}

\* Parser::parse_scheme: the index of the ":" that ends a scheme, or 0
parse_scheme(s) ==
    LET colon == FirstIn(s, {58})
    IN  IF s # <<>> /\ IsAlpha(Head(s)) /\ colon <= Len(s)
           /\ \A i \in 1..(colon - 1) : IsSchemeByte(s[i])
        THEN colon ELSE 0

\* Url::parse(s) of "scheme://host/path" with a special scheme: an error
\* (ParseError) without a scheme or with an empty host
Url_parse(s) ==
    LET colon == parse_scheme(Input(s))
        after == SubSeq(Input(s), colon + 1, Len(Input(s)))
        authority == TrimSlashes(after)
        hostEnd == FirstIn(authority, {Slash, Backslash, QuestionMark, Hash})
        p == parse_path(<<Slash>>, SubSeq(authority, hostEnd + 1, Len(authority)))
    IN  IF colon = 0 THEN [ok |-> FALSE, err |-> "RelativeUrlWithoutBase",
                           url |-> with_query_and_fragment(<<>>, <<>>)]
        ELSE IF hostEnd = 1 THEN [ok |-> FALSE, err |-> "EmptyHost",
                                  url |-> with_query_and_fragment(<<>>, <<>>)]
        ELSE [ok |-> TRUE, err |-> "",
              url |-> with_query_and_fragment(p.path, p.remaining)]

\* Url::join(base, s) for s that starts with a letter and has no scheme
\* (Parser::parse_relative, last arm): the base's path without its last
\* segment, then the path, query and fragment of s
Url_join(base, s) ==
    LET p == parse_path(pop_path(base.path), Input(s))
    IN  with_query_and_fragment(p.path, p.remaining)

\* Url::set_query(Some(q)): the old query is removed, the fragment kept
set_query(url, q) == [url EXCEPT !.query = Some(EncodeQuery(q))]

(***************************************************************************)
(* QStashError (utils.rs) and the Result of an operation                   *)
(***************************************************************************)
QStashError == {"ClientError", "InvalidHeaderValue", "UrlError", "SerdeError", "Unknown"}

Ok(v) == [tag |-> "Ok", val |-> v]
Err(e) == [tag |-> "Err", val |-> e]
Panicked == [tag |-> "Panic", val |-> ""]
NoOutcome == [tag |-> "none", val |-> ""]

(***************************************************************************)
(* Client::new (lib.rs:29-45). builds is the environment's part: whether   *)
(* reqwest's ClientBuilder::build can set up its TLS backend and resolver. *)
(***************************************************************************)
NoClient == [tag |-> "NotCalled", val |-> "", authorization |-> <<>>,
             api_base_url |-> with_query_and_fragment(<<>>, <<>>)]

Client_new(token, builds) ==
    LET auth == S_Bearer \o token
        base == Url_parse(BASE_URL)
    IN  IF ~HeaderValue_from_str(auth)
        THEN [NoClient EXCEPT !.tag = "Err", !.val = "InvalidHeaderValue"]
        ELSE IF ~builds
        THEN [NoClient EXCEPT !.tag = "Err", !.val = "ClientError"]
        ELSE IF ~base.ok
        THEN [NoClient EXCEPT !.tag = "Err", !.val = "UrlError"]
        ELSE [tag |-> "Ok", val |-> "", authorization |-> auth,
              api_base_url |-> base.url]

(***************************************************************************)
(* The requests of the five operations (lib.rs:57-175)                     *)
(***************************************************************************)
NoBody == [some |-> FALSE, val |-> ""]
NoRequest == [method |-> "", url |-> with_query_and_fragment(<<>>, <<>>),
              headers |-> HeaderMapNew, body |-> NoBody]

\* reqwest adds the client's default headers a request does not set itself
WithDefaults(self, headers) ==
    IF headers["authorization"] = <<>>
    THEN [headers EXCEPT !["authorization"] = <<self.authorization>>]
    ELSE headers

Request(self, method, url, headers, body) ==
    [method |-> method, url |-> url, headers |-> WithDefaults(self, headers),
     body |-> body]

get_quota(self) ==
    Request(self, "GET", Url_join(self.api_base_url, S_quota), HeaderMapNew, NoBody)

get_message(self, message_id) ==
    Request(self, "GET", Url_join(self.api_base_url, S_messages \o message_id),
            HeaderMapNew, NoBody)

cancel_message(self, message_id) ==
    Request(self, "DELETE", Url_join(self.api_base_url, S_messages \o message_id),
            HeaderMapNew, NoBody)

get_tasks(self, message_id, cursor) ==
    LET endpoint == Url_join(self.api_base_url, S_messages \o message_id \o S_tasks)
    IN  Request(self, "GET",
                IF cursor.some
                THEN set_query(endpoint, S_cursor \o to_string(cursor.val))
                ELSE endpoint,
                HeaderMapNew, NoBody)

\* publish_json up to send(): json!(body) unwraps serde_json::to_value and
\* as_headers unwraps every header value, so either can panic; otherwise the
\* POST request is complete
publish_json(self, url_or_topic, body, message_settings) ==
    LET endpoint == Url_join(self.api_base_url, S_publish \o url_or_topic)
        ms == IF message_settings.some THEN message_settings.val
              ELSE MessageSettings_new
        headers == as_headers(ms)
    IN  IF ~body.serializable THEN [panic |-> TRUE, request |-> NoRequest]
        ELSE IF headers.tag = "Panic" THEN [panic |-> TRUE, request |-> NoRequest]
        ELSE [panic |-> FALSE,
              request |-> Request(self, "POST", endpoint, headers.headers,
                                  [some |-> TRUE, val |-> body.json])]

\* serde_json's reading of a response body, for the bodies the model's
\* server sends
JsonDecode(text) ==
    CASE text = "{\"messageId\":\"msg_abc\"}" -> [ok |-> TRUE, value |-> "messageId=msg_abc"]
      [] text = "{\"error\":\"unauthorized\"}" -> [ok |-> TRUE, value |-> "error=unauthorized"]
      [] OTHER -> [ok |-> FALSE, value |-> ""]

\* response.json().await?: a body that cannot be read or decoded is a
\* reqwest::Error, which From turns into ClientError
response_json(readable, text) ==
    IF ~readable THEN Err("ClientError")
    ELSE IF ~JsonDecode(text).ok THEN Err("ClientError")
    ELSE Ok(JsonDecode(text).value)

(***************************************************************************)
(* The parts of the state a specification does not exercise stay as they   *)
(* start.                                                                  *)
(***************************************************************************)
NoHistory ==
    [delay |-> NoneStr, retries |-> NoneInt, cron |-> NoneStr,
     callback |-> NoneStr, dedup_id |-> NoneStr, custom_headers |-> NoneMap,
     custom_before |-> NoneMap]

NoBuilder ==
    /\ settings = MessageSettings_new
    /\ lastArg = NoHistory
    /\ consumed = FALSE
    /\ headersOut = NotCalled

NoClientNew ==
    /\ newToken = <<>>
    /\ client = NoClient

NoCallRecord ==
    [op |-> "none", target |-> <<>>, cursor |-> NoneInt,
     body |-> [serializable |-> TRUE, json |-> ""],
     settings |-> [some |-> FALSE, val |-> MessageSettings_new]]

NoResponse == [status |-> 0, readable |-> TRUE, text |-> ""]

NoCall ==
    /\ pc = "idle"
    /\ call = NoCallRecord
    /\ request = NoRequest
    /\ nreq = 0
    /\ response = NoResponse
    /\ outcome = NoOutcome

(***************************************************************************)
(* The builder as a state machine: the caller chains setters on a fresh    *)
(* MessageSettings and finally converts it with as_headers, which takes    *)
(* the builder by value.                                                   *)
(***************************************************************************)
\* "10s" and "a<LF>"; the second is no legal header value
StrValues == {<<49, 48, 115>>, <<97, 10>>}
RetryValues == 0..MaxRetries

\* caller-built HeaderMaps (their values are HeaderValues, legal by construction)
CustomOf(d, r, x) == [n \in HeaderNames |->
    CASE n = "upstash-delay" -> d
      [] n = "upstash-retries" -> r
      [] n = "x-trace" -> x
      [] OTHER -> <<>>]

CustomMaps == { CustomOf(<<>>, <<>>, <<>>),
                CustomOf(<<>>, <<>>, <<<<116>>>>),
                CustomOf(<<<<57, 115>>>>, <<>>, <<>>),
                CustomOf(<<<<57, 115>>, <<56, 115>>>>, <<>>, <<>>),
                CustomOf(<<>>, <<<<55>>>>, <<<<116>>>>) }

InitSettings ==
    /\ NoBuilder
    /\ NoClientNew
    /\ NoCall

Set_delay ==
    \E v \in StrValues :
        /\ ~consumed
        /\ settings' = delay(settings, v)
        /\ lastArg' = [lastArg EXCEPT !.delay = Some(v)]
        /\ UNCHANGED <<consumed, headersOut, newVars, callVars>>

Set_retries ==
    \E v \in RetryValues :
        /\ ~consumed
        /\ settings' = retries(settings, v)
        /\ lastArg' = [lastArg EXCEPT !.retries = Some(v)]
        /\ UNCHANGED <<consumed, headersOut, newVars, callVars>>

Set_cron ==
    \E v \in StrValues :
        /\ ~consumed
        /\ settings' = cron(settings, v)
        /\ lastArg' = [lastArg EXCEPT !.cron = Some(v)]
        /\ UNCHANGED <<consumed, headersOut, newVars, callVars>>

Set_callback_url ==
    \E v \in StrValues :
        /\ ~consumed
        /\ settings' = callback_url(settings, v)
        /\ lastArg' = [lastArg EXCEPT !.callback = Some(v)]
        /\ UNCHANGED <<consumed, headersOut, newVars, callVars>>

Set_dedup_id ==
    \E v \in StrValues :
        /\ ~consumed
        /\ settings' = dedup_id(settings, v)
        /\ lastArg' = [lastArg EXCEPT !.dedup_id = Some(v)]
        /\ UNCHANGED <<consumed, headersOut, newVars, callVars>>

Set_custom_headers ==
    \E v \in CustomMaps :
        /\ ~consumed
        /\ settings' = custom_headers(settings, v)
        /\ lastArg' = [lastArg EXCEPT !.custom_headers = Some(v),
                                      !.custom_before = lastArg.custom_headers]
        /\ UNCHANGED <<consumed, headersOut, newVars, callVars>>

AsHeaders ==
    /\ ~consumed
    /\ consumed' = TRUE
    /\ headersOut' = as_headers(settings)
    /\ UNCHANGED <<settings, lastArg, newVars, callVars>>

NextSettings ==
    \/ Set_delay
    \/ Set_retries
    \/ Set_cron
    \/ Set_callback_url
    \/ Set_dedup_id
    \/ Set_custom_headers
    \/ AsHeaders

SpecSettings == InitSettings /\ [][NextSettings]_vars

(***************************************************************************)
(* Client::new as a one-step machine over tokens                           *)
(***************************************************************************)
SeqsUpTo(S, n) == UNION { [1..k -> S] : k \in 0..n }

\* a token is a &str, so its bytes are valid UTF-8: an ASCII byte stands
\* alone, and the lead byte of a two-byte character (194..223) is followed by
\* one continuation byte (128..191)
RECURSIVE IsUtf8(_)
IsUtf8(s) ==
    IF s = <<>> THEN TRUE
    ELSE IF Head(s) < 128 THEN IsUtf8(Tail(s))
    ELSE IF Head(s) \in 194..223
    THEN Len(s) >= 2 /\ s[2] \in 128..191 /\ IsUtf8(SubSeq(s, 3, Len(s)))
    ELSE FALSE

\* "a", space, tab, line feed, DEL and the two bytes of U+00E9 (195, 169)
TokenBytes == {97, 32, 9, 10, 127, 195, 169}
Tokens == { t \in SeqsUpTo(TokenBytes, MaxTokenLen) : IsUtf8(t) }

InitNew ==
    /\ NoBuilder
    /\ NoClientNew
    /\ NoCall

ClientNew ==
    \E token \in Tokens, builds \in BOOLEAN :
        /\ client.tag = "NotCalled"
        /\ newToken' = token
        /\ client' = Client_new(token, builds)
        /\ UNCHANGED <<settingsVars, callVars>>

NextNew == ClientNew

SpecNew == InitNew /\ [][NextNew]_vars

(***************************************************************************)
(* The operations of a constructed Client. A call runs up to its request   *)
(* (or panics before it), is suspended at send().await, then at            *)
(* json().await, and returns.                                              *)
(***************************************************************************)
\* "tok"
SampleToken == <<116, 111, 107>>

\* "a", "/", "?", "#", "." and space
IdBytes == {97, Slash, QuestionMark, Hash, Dot, Space}
\* "https://example.com/hook"
ExampleTarget == <<104, 116, 116, 112, 115, 58, 47, 47, 101, 120, 97, 109, 112, 108, 101, 46, 99, 111, 109, 47, 104, 111, 111, 107>>
\* "c:/..": a drive-letter segment followed by a ".." segment
DriveLetterId == <<99, 58, 47, 46, 46>>
Ids == SeqsUpTo(IdBytes, MaxIdLen) \cup {ExampleTarget, DriveLetterId}

Cursors == {NoneInt} \cup { Some(n) : n \in (0 - MaxCursor)..MaxCursor } \cup {Some(42)}

Bodies == { [serializable |-> TRUE, json |-> "{\"key1\":\"value1\"}"],
            [serializable |-> FALSE, json |-> ""] }

PublishSettings ==
    { [some |-> FALSE, val |-> MessageSettings_new],
      Some(retries(delay(MessageSettings_new, <<49, 48, 115>>), 3)),
      Some(cron(MessageSettings_new, <<97, 10>>)),
      Some(custom_headers(delay(MessageSettings_new, <<49, 48, 115>>),
                          CustomOf(<<<<57, 115>>>>, <<>>, <<>>))) }

\* a success, a redirect and a client error
Statuses == {200, 307, 401}

\* reqwest's default redirect policy, which the Client of lib.rs:37-38 keeps:
\* Policy::limited(10)
RedirectLimit == 10
ResponseTexts == { "{\"messageId\":\"msg_abc\"}", "{\"error\":\"unauthorized\"}",
                   "<html>Bad Gateway</html>" }

Init ==
    /\ NoBuilder
    /\ newToken = SampleToken
    /\ client = Client_new(SampleToken, TRUE)
    /\ NoCall

\* RequestBuilder::send(): the request goes to the transport, which puts it
\* on the network; request stays the request the operation built
Send(req) ==
    /\ request' = req
    /\ nreq' = nreq + 1
    /\ pc' = "sending"
    /\ UNCHANGED <<response, outcome>>

Call_get_quota ==
    /\ pc = "idle"
    /\ call' = [NoCallRecord EXCEPT !.op = "get_quota"]
    /\ Send(get_quota(client))
    /\ UNCHANGED <<settingsVars, newVars>>

Call_get_message ==
    \E message_id \in Ids :
        /\ pc = "idle"
        /\ call' = [NoCallRecord EXCEPT !.op = "get_message", !.target = message_id]
        /\ Send(get_message(client, message_id))
        /\ UNCHANGED <<settingsVars, newVars>>

Call_cancel_message ==
    \E message_id \in Ids :
        /\ pc = "idle"
        /\ call' = [NoCallRecord EXCEPT !.op = "cancel_message", !.target = message_id]
        /\ Send(cancel_message(client, message_id))
        /\ UNCHANGED <<settingsVars, newVars>>

Call_get_tasks ==
    \E message_id \in Ids, cursor \in Cursors :
        /\ pc = "idle"
        /\ call' = [NoCallRecord EXCEPT !.op = "get_tasks", !.target = message_id,
                                        !.cursor = cursor]
        /\ Send(get_tasks(client, message_id, cursor))
        /\ UNCHANGED <<settingsVars, newVars>>

Call_publish_json ==
    \E url_or_topic \in Ids, body \in Bodies, message_settings \in PublishSettings :
        LET p == publish_json(client, url_or_topic, body, message_settings)
        IN  /\ pc = "idle"
            /\ call' = [NoCallRecord EXCEPT !.op = "publish_json",
                                            !.target = url_or_topic, !.body = body,
                                            !.settings = message_settings]
            /\ IF p.panic
               THEN /\ pc' = "done"
                    /\ outcome' = Panicked
                    /\ UNCHANGED <<request, nreq, response>>
               ELSE Send(p.request)
            /\ UNCHANGED <<settingsVars, newVars>>

\* send().await?: the transport fails (no connection, timeout, ...)
SendFails ==
    /\ pc = "sending"
    /\ outcome' = Err("ClientError")
    /\ pc' = "done"
    /\ UNCHANGED <<call, request, nreq, response, settingsVars, newVars>>

\* inside send().await: the answer is a redirect (301, 302, 303, 307 or 308)
\* whose Location resolves to a URL, and the transport, built with the
\* default redirect policy, follows it with a further network request; the
\* operation stays suspended in the same send().await. The policy refuses
\* when RedirectLimit is reached; reqwest releases differ on whether the
\* first request counts towards it, so at the limit both are possible.
SendFollowsRedirect ==
    /\ pc = "sending"
    /\ nreq <= RedirectLimit
    /\ nreq' = nreq + 1
    /\ UNCHANGED <<pc, call, request, response, outcome, settingsVars, newVars>>

\* send().await?: the redirect policy refuses a further redirect (too many
\* redirects), a reqwest::Error that From turns into ClientError
SendTooManyRedirects ==
    /\ pc = "sending"
    /\ nreq >= RedirectLimit
    /\ outcome' = Err("ClientError")
    /\ pc' = "done"
    /\ UNCHANGED <<call, request, nreq, response, settingsVars, newVars>>

\* send().await: a response that is not followed arrives (a success, an
\* error status, or a redirect with no usable Location); its status is not
\* looked at
SendCompletes ==
    \E status \in Statuses :
        /\ pc = "sending"
        /\ response' = [NoResponse EXCEPT !.status = status]
        /\ pc' = "decoding"
        /\ UNCHANGED <<call, request, nreq, outcome, settingsVars, newVars>>

\* response.json().await?
BodyCompletes ==
    \E readable \in BOOLEAN, text \in ResponseTexts :
        /\ pc = "decoding"
        /\ readable \/ text = "<html>Bad Gateway</html>"
        /\ response' = [response EXCEPT !.readable = readable,
                                        !.text = IF readable THEN text ELSE ""]
        /\ outcome' = response_json(readable, text)
        /\ pc' = "done"
        /\ UNCHANGED <<call, request, nreq, settingsVars, newVars>>

\* the caller has the result; the Client is ready for the next call
Return ==
    /\ pc = "done"
    /\ pc' = "idle"
    /\ call' = NoCallRecord
    /\ request' = NoRequest
    /\ nreq' = 0
    /\ response' = NoResponse
    /\ outcome' = NoOutcome
    /\ UNCHANGED <<settingsVars, newVars>>

Next ==
    \/ Call_get_quota
    \/ Call_get_message
    \/ Call_cancel_message
    \/ Call_get_tasks
    \/ Call_publish_json
    \/ SendFails
    \/ SendFollowsRedirect
    \/ SendTooManyRedirects
    \/ SendCompletes
    \/ BodyCompletes
    \/ Return

Spec == Init /\ [][Next]_vars

(***************************************************************************)
(* Vocabulary of the properties, stated apart from the operators above     *)
(***************************************************************************)
\* s is the canonical decimal text of n: an optional "-", digits with no
\* leading zero, and the value n
RECURSIVE DigitsValue(_)
DigitsValue(s) == IF s = <<>> THEN 0
                  ELSE 10 * DigitsValue(SubSeq(s, 1, Len(s) - 1)) + (s[Len(s)] - 48)

IsDigits(s) == /\ Len(s) >= 1
               /\ \A i \in 1..Len(s) : s[i] \in 48..57
               /\ (Len(s) > 1 => s[1] # 48)

IsDecimalOf(s, n) ==
    IF n < 0
    THEN Len(s) >= 2 /\ s[1] = 45 /\ IsDigits(Tail(s)) /\ DigitsValue(Tail(s)) = 0 - n
    ELSE IsDigits(s) /\ DigitsValue(s) = n

\* a byte that may not stand in an HTTP header value: a control character
\* other than tab, or DEL
IllegalHeaderByte(b) == b \in (0..8) \cup (10..31) \cup {127}
HasIllegalByte(s) == \E i \in 1..Len(s) : IllegalHeaderByte(s[i])

\* an identifier or target that a URL path takes as it is written: no "?",
\* "#" or "\", no space, control or non-ASCII byte, none of the bytes a path
\* percent-encodes (", <, >, ^, `, {, }), and no "." or ".." segment (plain
\* or written with %2e)
PlainPathByte(b) ==
    b > 32 /\ b < 127 /\ b \notin {34, 35, 60, 62, 63, 92, 94, 96, 123, 125}

HasDotSegment(id) ==
    \E i \in 1..Len(id), j \in 1..Len(id) :
        /\ i <= j
        /\ (i = 1 \/ id[i - 1] = 47)
        /\ (j = Len(id) \/ id[j + 1] = 47)
        /\ SubSeq(id, i, j) \in DoubleDotSegments \cup SingleDotSegments

PlainId(id) == (\A i \in 1..Len(id) : PlainPathByte(id[i])) /\ ~HasDotSegment(id)

ReservedField(ms, n) ==
    CASE n = "upstash-delay" -> ms.delay
      [] n = "upstash-cron" -> ms.cron
      [] n = "upstash-callback" -> ms.callback
      [] n = "upstash-deduplication-id" -> ms.dedup_id
      [] OTHER -> NoneStr

CustomSupplies(ms, n) == ms.custom_headers.some /\ ms.custom_headers.val[n] # <<>>

\* the request of the current call is with the transport or answered
RequestIssued == pc \in {"sending", "decoding"} \/ (pc = "done" /\ outcome.tag # "Panic")

PathPrefix(op) ==
    CASE op = "publish_json" -> S_publish
      [] op = "get_message" -> S_messages
      [] op = "cancel_message" -> S_messages
      [] op = "get_tasks" -> S_messages
      [] op = "get_quota" -> S_quota
      [] OTHER -> <<>>

Method(op) ==
    CASE op = "publish_json" -> "POST"
      [] op = "cancel_message" -> "DELETE"
      [] OTHER -> "GET"

(***************************************************************************)
(* Properties                                                              *)
(***************************************************************************)

\* C1: when as_headers returns, the result holds, under every name a custom
\* header supplies, exactly the custom values (also when a reserved field
\* with that name is populated); under a reserved name no custom header
\* supplies, exactly one value, the field's text (retries in decimal), when
\* the field is populated and none when it is not; and nothing else.
C1_AsHeadersContent ==
    headersOut.tag = "Returned" =>
        \A n \in HeaderNames :
            LET got == headersOut.headers[n]
            IN  IF CustomSupplies(settings, n)
                THEN got = settings.custom_headers.val[n]
                ELSE IF n = "upstash-retries"
                THEN IF settings.retries.some
                     THEN Len(got) = 1 /\ IsDecimalOf(got[1], settings.retries.val)
                     ELSE got = <<>>
                ELSE IF ReservedField(settings, n).some
                THEN got = <<ReservedField(settings, n).val>>
                ELSE got = <<>>

\* C1 witness: delay and retries populated, cron not, and a custom header
\* set that supplies two values under the name of the delay header
C1_Witness ==
    /\ headersOut.tag = "Returned"
    /\ settings.delay.some /\ settings.retries.some /\ ~settings.cron.some
    /\ settings.retries.val = 12
    /\ CustomSupplies(settings, "upstash-delay")
    /\ Len(headersOut.headers["upstash-delay"]) = 2
    /\ Len(headersOut.headers["upstash-retries"]) = 1

\* C10: the builder starts with every field unpopulated, and at every moment
\* each field holds the argument of the last call of its own setter (or is
\* unpopulated when that setter was never called).
C10_SettersSetOwnField ==
    /\ settings.delay = lastArg.delay
    /\ settings.retries = lastArg.retries
    /\ settings.cron = lastArg.cron
    /\ settings.callback = lastArg.callback
    /\ settings.dedup_id = lastArg.dedup_id
    /\ settings.custom_headers = lastArg.custom_headers
    /\ (lastArg = NoHistory => settings = MessageSettings_new)

\* C10 witness: custom_headers was called twice, first with a set that has
\* x-trace and then with one that has not, and the builder holds the second
\* set only; callback is set and cron is not
C10_Witness ==
    /\ lastArg.custom_before.some
    /\ lastArg.custom_before.val["x-trace"] # <<>>
    /\ settings.custom_headers.some
    /\ settings.custom_headers.val["x-trace"] = <<>>
    /\ settings.custom_headers.val["upstash-delay"] # <<>>
    /\ settings.callback.some /\ ~settings.cron.some

\* C8 as stated: Client::new never ends with UrlError, ends with
\* InvalidHeaderValue exactly when the token has an illegal byte, and for
\* every other token builds a Client whose Authorization is "Bearer " + token.
C8_Original ==
    client.tag # "NotCalled" =>
        /\ ~(client.tag = "Err" /\ client.val = "UrlError")
        /\ (client.tag = "Err" /\ client.val = "InvalidHeaderValue")
               <=> HasIllegalByte(newToken)
        /\ ~HasIllegalByte(newToken) =>
               client.tag = "Ok" /\ client.authorization = S_Bearer \o newToken

\* C8 amended: as C8, but for a token without an illegal byte Client::new
\* either builds that Client or ends with ClientError (the HTTP transport
\* could not be built).
C8_Amended ==
    client.tag # "NotCalled" =>
        /\ ~(client.tag = "Err" /\ client.val = "UrlError")
        /\ (client.tag = "Err" /\ client.val = "InvalidHeaderValue")
               <=> HasIllegalByte(newToken)
        /\ ~HasIllegalByte(newToken) =>
               \/ client.tag = "Ok" /\ client.authorization = S_Bearer \o newToken
               \/ client.tag = "Err" /\ client.val = "ClientError"

\* C8 witness: a Client built from the token tab, U+00E9 (a tab and a
\* non-ASCII character, both legal in a header value)
C8_Witness ==
    /\ client.tag = "Ok"
    /\ newToken = <<9, 195, 169>>
    /\ client.authorization = S_Bearer \o newToken

\* C2 as stated: a publish_json call answered with a non-success status ends
\* with Err(ClientError).
C2_NonSuccessIsClientError ==
    (pc = "done" /\ call.op = "publish_json" /\ response.status # 0
        /\ response.status \notin 200..299)
    => outcome = Err("ClientError")

\* C3 as stated: a publish_json call whose settings hold, in delay, cron,
\* callback or dedup_id, text that is no legal header value ends with
\* Err(InvalidHeaderValue), without a network request.
C3_IllegalSettingIsAnError ==
    (pc = "done" /\ call.op = "publish_json" /\ call.body.serializable
        /\ call.settings.some
        /\ \E n \in HeaderNames :
               /\ ReservedField(call.settings.val, n).some
               /\ HasIllegalByte(ReservedField(call.settings.val, n).val))
    => (outcome = Err("InvalidHeaderValue") /\ nreq = 0)

\* C4 as stated: every call ends with Ok(value) or with Err of a QStashError
\* variant, and in no other way.
C4_OkOrTypedError ==
    pc = "done" =>
        \/ outcome.tag = "Ok"
        \/ outcome.tag = "Err" /\ outcome.val \in QStashError

\* C9 as stated: a body that cannot be serialized, and a response body that
\* is no JSON, each end the call with Err(SerdeError).
C9_SerdeFailuresAreSerdeError ==
    pc = "done" =>
        /\ (call.op = "publish_json" /\ ~call.body.serializable)
               => outcome = Err("SerdeError")
        /\ (response.status # 0 /\ response.readable
                /\ response.text = "<html>Bad Gateway</html>")
               => outcome = Err("SerdeError")

\* C5 as stated: for every message_id, get_tasks requests the path
\* base/messages/<message_id>/tasks, with no query for cursor None and the
\* query cursor=<n in decimal> for cursor Some(n).
C5_Original ==
    (RequestIssued /\ call.op = "get_tasks") =>
        /\ request.url.path = S_v1 \o S_messages \o call.target \o S_tasks
        /\ ~call.cursor.some => ~request.url.query.some
        /\ call.cursor.some =>
               /\ request.url.query.some
               /\ SubSeq(request.url.query.val, 1, Len(S_cursor)) = S_cursor
               /\ IsDecimalOf(SubSeq(request.url.query.val, Len(S_cursor) + 1,
                                     Len(request.url.query.val)), call.cursor.val)

\* C5 amended: for every message_id, get_tasks(message_id, Some(n)) requests
\* a URL whose query is exactly cursor=<n in decimal>; for every message_id
\* that a path takes as written (PlainId), the path is
\* base/messages/<message_id>/tasks, there is no fragment, and
\* get_tasks(message_id, None) requests a URL with no query.
C5_Amended ==
    (RequestIssued /\ call.op = "get_tasks") =>
        /\ request.method = "GET"
        /\ call.cursor.some =>
               /\ request.url.query.some
               /\ SubSeq(request.url.query.val, 1, Len(S_cursor)) = S_cursor
               /\ IsDecimalOf(SubSeq(request.url.query.val, Len(S_cursor) + 1,
                                     Len(request.url.query.val)), call.cursor.val)
        /\ PlainId(call.target) =>
               /\ request.url.path = S_v1 \o S_messages \o call.target \o S_tasks
               /\ ~request.url.fragment.some
               /\ ~call.cursor.some => ~request.url.query.some

\* C5 witness: get_tasks with a plain message_id of full length and cursor
\* Some(-12) is with the transport, its query being "cursor=-12"
C5_Witness ==
    /\ pc = "sending" /\ call.op = "get_tasks"
    /\ PlainId(call.target) /\ Len(call.target) = MaxIdLen
    /\ call.cursor = Some(0 - 12)
    /\ request.url.query = Some(S_cursor \o <<45, 49, 50>>)

\* C6 as stated: for every identifier or target, publish_json, get_message,
\* cancel_message and get_quota issue their method against base + path +
\* identifier, the identifier standing in the path as the caller wrote it.
C6_Original ==
    (RequestIssued /\ call.op \in {"publish_json", "get_message", "cancel_message",
                                   "get_quota"}) =>
        /\ request.method = Method(call.op)
        /\ request.url.path = S_v1 \o PathPrefix(call.op) \o call.target
        /\ ~request.url.query.some
        /\ ~request.url.fragment.some

\* C6 amended: each of the four operations issues its method for every
\* identifier or target; for every identifier or target that a path takes
\* as written (PlainId) the URL is base + path + identifier, with no query
\* and no fragment.
C6_Amended ==
    (RequestIssued /\ call.op \in {"publish_json", "get_message", "cancel_message",
                                   "get_quota"}) =>
        /\ request.method = Method(call.op)
        /\ PlainId(call.target) =>
               /\ request.url.path = S_v1 \o PathPrefix(call.op) \o call.target
               /\ ~request.url.query.some
               /\ ~request.url.fragment.some

\* C6 witness: publish_json to "https://example.com/hook" is with the transport
C6_Witness ==
    /\ pc = "sending" /\ call.op = "publish_json"
    /\ call.target = ExampleTarget
    /\ request.method = "POST"
    /\ request.url.path = S_v1 \o S_publish \o ExampleTarget

\* C7 as stated: at no moment of its run has a call issued more than one
\* network request, and every call that has ended issued exactly one.
C7_Original ==
    /\ nreq <= 1
    /\ pc = "done" => nreq = 1

====
